---- MODULE Spec2Model ----
(***************************************************************************)
(* Model of RT_Kernel_Test_Scripts/TestingTiming.cpp: a single sequential  *)
(* procedure that requests SCHED_FIFO, opens /dev/ttyAMA0, and then emits  *)
(* one "%.4f\r\n" sine sample per 50 ms absolute deadline, forever.        *)
(*                                                                         *)
(* Time is a struct timespec (tv_sec, tv_nsec in nanoseconds).  The        *)
(* monotonic clock is read on a 1 ms grid; every step of the procedure may *)
(* take a delay drawn from a small set of milliseconds.                    *)
(* Real numbers are fixed point with four decimals (Scale = 10^4), the     *)
(* precision the "%.4f" conversion prints.                                 *)
(***************************************************************************)
EXTENDS Integers, Sequences, FiniteSets, TLC

(* ------------------------------ constants ------------------------------ *)

NSEC_PER_SEC == 1000000000

NSEC_PER_MS == 1000000

MS_PER_SEC == NSEC_PER_SEC \div NSEC_PER_MS

StepMs == 50

Amplitude == 4

Offset == 4

(* freq = 0.33 Hz, in hundredths of a hertz *)
FreqCentiHz == 33

(* a full turn, in the units of CyclePos: FreqCentiHz * ms / CycleUnits turns *)
CycleUnits == 100 * MS_PER_SEC

TwoPiScaled == 62832

Scale == 10000

FracDigits == 4

BufSize == 32

(* ------------------------------- bounds -------------------------------- *)

MaxTick == 4

MaxMs == 1100

MaxApply == 2

(* Delays (ms) a step of the procedure may take. *)
InitDelays == {0, 1}

CompDelays == {0, 2}

IODelays == {0, 30, 700}

WakeLatencies == {0, 1}

(* Monotonic clock readings the program may start from. *)
StartClocks ==
    { [tv_sec |-> 7, tv_nsec |-> 0],
      [tv_sec |-> 7, tv_nsec |-> 960 * NSEC_PER_MS] }

(* ------------------------------ timespec ------------------------------- *)

Timespec(s, ns) == [tv_sec |-> s, tv_nsec |-> ns]

Normalised(t) == t.tv_nsec >= 0 /\ t.tv_nsec < NSEC_PER_SEC

(* a < b on normalised timespecs, as the kernel compares them *)
TsBefore(a, b) ==
    \/ a.tv_sec < b.tv_sec
    \/ a.tv_sec = b.tv_sec /\ a.tv_nsec < b.tv_nsec

(* the monotonic clock d milliseconds after reading c *)
ClockAfter(c, d) ==
    LET n == c.tv_nsec + d * NSEC_PER_MS
    IN  Timespec(c.tv_sec + (n \div NSEC_PER_SEC), n % NSEC_PER_SEC)

(* whole milliseconds of a - b, and the nanoseconds left over *)
DiffMs(a, b) ==
    (a.tv_sec - b.tv_sec) * MS_PER_SEC + ((a.tv_nsec - b.tv_nsec) \div NSEC_PER_MS)

DiffRemNs(a, b) == (a.tv_nsec - b.tv_nsec) % NSEC_PER_MS

(* add_ms with "if" in place of "while": at most one carry *)
CarryOnce(t) ==
    IF t.tv_nsec >= NSEC_PER_SEC
    THEN Timespec(t.tv_sec + 1, t.tv_nsec - NSEC_PER_SEC)
    ELSE t

(* the while loop of add_ms *)
RECURSIVE CarryLoop(_)
CarryLoop(t) ==
    IF t.tv_nsec >= NSEC_PER_SEC
    THEN CarryLoop(Timespec(t.tv_sec + 1, t.tv_nsec - NSEC_PER_SEC))
    ELSE t

add_ms(t, ms) == CarryLoop(Timespec(t.tv_sec, t.tv_nsec + ms * NSEC_PER_MS))

(* a sleep whose deadline is always taken to have passed *)
sleep_until_past(c, ts) == c

(* clock_nanosleep(CLOCK_MONOTONIC, TIMER_ABSTIME, &ts): returns at once    *)
(* when ts has passed (or is rejected with EINVAL), else not before ts.     *)
sleep_until(c, ts) ==
    IF Normalised(ts) /\ TsBefore(c, ts) THEN ts ELSE c

(* -------------------------------- sine --------------------------------- *)

(* (now - start) in milliseconds: lines 73-75 *)
ElapsedMs(now, start) == DiffMs(now, start)

(* position in the cycle, in 1/CycleUnits of a turn: freq * t_sec mod 1 *)
CyclePos(tms) == (FreqCentiHz * tms) % CycleUnits

(* a / b rounded up, for a >= 0 and b > 0 *)
CeilDiv(a, b) == (a + b - 1) \div b

(* sin of x (radians * Scale, 0 <= x <= pi/2), times Scale: the series     *)
(* x - x^3/3! + x^5/5! - x^7/7! + x^9/9! in Horner form, the subtracted     *)
(* terms rounded so that the result never exceeds the true sine            *)
SinQuarter(x) ==
    LET x2 == (x * x) \div Scale
        t4 == Scale - (x2 \div 72)
        t3 == Scale - CeilDiv(x2 * t4, 42 * Scale)
        t2 == Scale - ((x2 * t3) \div (20 * Scale))
        t1 == Scale - CeilDiv(x2 * t2, 6 * Scale)
    IN  (x * t1) \div Scale

Radians(q) == (q * TwoPiScaled) \div CycleUnits

(* std::sin(two_pi * freq * t_sec), times Scale *)
SinScaled(tms) ==
    LET p    == CyclePos(tms)
        half == CycleUnits \div 2
        quar == CycleUnits \div 4
        h    == p % half
        q    == IF h <= quar THEN h ELSE half - h
        s    == SinQuarter(Radians(q))
    IN  IF p < half THEN s ELSE 0 - s

(* the sample without its offset *)
SineYNoOffset(tms) == Amplitude * SinScaled(tms)

(* y = amplitude * sin(two_pi * freq * t_sec) + offset, times Scale *)
SineY(tms) == Amplitude * SinScaled(tms) + Offset * Scale

(* ------------------------------- format -------------------------------- *)

Digits == <<"0", "1", "2", "3", "4", "5", "6", "7", "8", "9">>

DigitChar(d) == Digits[d + 1]

RECURSIVE IntChars(_)
IntChars(n) ==
    IF n < 10 THEN <<DigitChar(n)>>
    ELSE Append(IntChars(n \div 10), DigitChar(n % 10))

RECURSIVE FracChars(_, _)
FracChars(n, k) ==
    IF k = 0 THEN <<>>
    ELSE Append(FracChars(n \div 10, k - 1), DigitChar(n % 10))

(* the line ended by a bare line-feed *)
FormatLineNoCR(v) ==
    LET a == IF v < 0 THEN 0 - v ELSE v
    IN  (IF v < 0 THEN <<"-">> ELSE <<>>)
        \o IntChars(a \div Scale) \o <<".">> \o FracChars(a % Scale, FracDigits)
        \o <<"\n">>

(* the characters "%.4f\r\n" produces for v / Scale *)
FormatLine(v) ==
    LET a == IF v < 0 THEN 0 - v ELSE v
    IN  (IF v < 0 THEN <<"-">> ELSE <<>>)
        \o IntChars(a \div Scale) \o <<".">> \o FracChars(a % Scale, FracDigits)
        \o <<"\r", "\n">>

(* snprintf(buffer, sizeof(buffer), ...): at most size - 1 characters kept *)
snprintf(size, v) ==
    LET s == FormatLine(v)
    IN  IF Len(s) <= size - 1 THEN s ELSE SubSeq(s, 1, size - 1)

(* -------------------------------- state -------------------------------- *)

VARIABLES
    pc,          \* position of main: "start", "open", "config", "clock_next",
                 \* "clock_start", "loop", "write", "drain", "log", "sleep",
                 \* "advance", "exit"; "add_ms" when add_ms is run on its own
    clock,       \* CLOCK_MONOTONIC
    rt,          \* outcome of sched_setscheduler: "none", "ok", "fail"
    serial_fd,   \* "none", "open", "failed" (open returned -1), "closed"
    configured,  \* tcsetattr has been issued
    stderrLog,   \* lines written to stderr
    exitStatus,  \* NoExit, or the status main returned
    next,        \* struct timespec next
    start,       \* struct timespec start
    now,         \* struct timespec now
    t_ms,        \* t_sec of the current iteration, in ms
    y,           \* y of the current iteration, times Scale
    buffer,      \* char buffer[32], up to its NUL
    tick,        \* iterations completed
    wire,        \* payload of the last write(serial_fd, ...)
    io,          \* counters and outcomes of the loop's calls
    hist,        \* observations of the run the properties refer to
    am           \* add_ms on its own: its argument and result

vars ==
    <<pc, clock, rt, serial_fd, configured, stderrLog, exitStatus, next, start,
      now, t_ms, y, buffer, tick, wire, io, hist, am>>

NoExit == 0 - 1

NoTime == Timespec(0, 0)

IoInit ==
    [ writes |-> 0, drains |-> 0, logs |-> 0, sleeps |-> 0,
      wr |-> "none", failed |-> FALSE ]

HistInit ==
    [ t0 |-> NoTime,          \* the reading of line 61, before add_ms
      deadline |-> NoTime,    \* the deadline given to the latest sleep
      emit |-> NoTime,        \* when the latest write was issued
      prevEmit |-> NoTime,    \* when the write before it was issued
      pending |-> 0,          \* delays inside the current iteration before its write
      jitter |-> 0,           \* delays inside the iteration of the latest emission
      prevJitter |-> 0,       \* delays inside the iteration before it
      latency |-> 0 ]         \* time lost before the iteration began: after the
                              \* reading of line 61, or in a late wake-up

AmInit == [ t |-> NoTime, ms |-> 0, prev |-> NoTime, n |-> 0 ]

(* everything but the position and the clock, before main has run *)
Fresh ==
    /\ rt = "none"
    /\ serial_fd = "none"
    /\ configured = FALSE
    /\ stderrLog = <<>>
    /\ exitStatus = NoExit
    /\ next = NoTime
    /\ start = NoTime
    /\ now = NoTime
    /\ t_ms = 0
    /\ y = 0
    /\ buffer = <<>>
    /\ tick = 0
    /\ wire = <<>>
    /\ io = IoInit
    /\ hist = HistInit

Init ==
    /\ pc = "start"
    /\ clock \in StartClocks
    /\ Fresh
    /\ am = AmInit

(* ------------------------------- actions ------------------------------- *)

(* enable_realtime() giving up when the request is refused *)
EnableRealtimeFatal ==
    /\ pc = "start"
    /\ \E r \in {"ok", "fail"} :
        /\ rt' = r
        /\ IF r = "fail"
           THEN /\ stderrLog' = Append(stderrLog, "sched_setscheduler")
                /\ exitStatus' = 1
                /\ pc' = "exit"
           ELSE /\ pc' = "open"
                /\ UNCHANGED <<stderrLog, exitStatus>>
    /\ UNCHANGED <<clock, serial_fd, configured, next, start, now, t_ms, y, buffer,
                   tick, wire, io, hist, am>>

(* enable_realtime(): the request may be refused; perror, then return *)
EnableRealtime ==
    /\ pc = "start"
    /\ \E r \in {"ok", "fail"} :
        /\ rt' = r
        /\ stderrLog' = IF r = "fail" THEN Append(stderrLog, "sched_setscheduler")
                        ELSE stderrLog
    /\ pc' = "open"
    /\ UNCHANGED <<clock, serial_fd, configured, exitStatus, next, start, now,
                  t_ms, y, buffer, tick, wire, io, hist, am>>

(* the open check without its return *)
OpenFailedNoReturn ==
    /\ stderrLog' = Append(stderrLog, "Failed to open UART")
    /\ exitStatus' = exitStatus
    /\ pc' = "config"

(* if (serial_fd == -1) { std::cerr << "Failed to open UART\n"; return 1; } *)
OpenFailed ==
    /\ stderrLog' = Append(stderrLog, "Failed to open UART")
    /\ exitStatus' = 1
    /\ pc' = "exit"

(* int serial_fd = open(port, O_RDWR | O_NOCTTY | O_NDELAY) and its check *)
OpenPort ==
    /\ pc = "open"
    /\ \E r \in {"open", "failed"} :
        /\ serial_fd' = r
        /\ IF r = "failed" THEN OpenFailed
           ELSE pc' = "config" /\ UNCHANGED <<stderrLog, exitStatus>>
    /\ UNCHANGED <<clock, rt, configured, next, start, now, t_ms, y, buffer,
                  tick, wire, io, hist, am>>

(* tcgetattr ... tcsetattr(serial_fd, TCSANOW, &options); results unchecked *)
ConfigureUart ==
    /\ pc = "config"
    /\ configured' = TRUE
    /\ pc' = "clock_next"
    /\ UNCHANGED <<clock, rt, serial_fd, stderrLog, exitStatus, next, start,
                  now, t_ms, y, buffer, tick, wire, io, hist, am>>

(* clock_gettime(CLOCK_MONOTONIC, &next); add_ms(next, 50); *)
ClockNext ==
    /\ pc = "clock_next"
    /\ next' = add_ms(clock, StepMs)
    /\ \E d \in InitDelays :
        /\ clock' = ClockAfter(clock, d)
        /\ hist' = [hist EXCEPT !.t0 = clock, !.latency = d]
    /\ pc' = "clock_start"
    /\ UNCHANGED <<rt, serial_fd, configured, stderrLog, exitStatus, start,
                  now, t_ms, y, buffer, tick, wire, io, am>>

(* clock_gettime(CLOCK_MONOTONIC, &start); *)
ClockStart ==
    /\ pc = "clock_start"
    /\ start' = clock
    /\ pc' = "loop"
    /\ UNCHANGED <<clock, rt, serial_fd, configured, stderrLog, exitStatus,
                  next, now, t_ms, y, buffer, tick, wire, io, hist, am>>

(* a loop that runs only while no write or drain has failed *)
LoopUntilFailure == ~io.failed

(* while (true) *)
LoopCond == TRUE

(* the loop test, then clock_gettime(&now), t_sec, y and snprintf; were the *)
(* test to fail, close(serial_fd) and return 0                              *)
Sample ==
    /\ pc = "loop"
    /\ tick < MaxTick
    /\ IF LoopCond
       THEN /\ now' = clock
            /\ t_ms' = ElapsedMs(now', start)
            /\ y' = SineY(t_ms')
            /\ buffer' = snprintf(BufSize, y')
            /\ \E d \in CompDelays :
                /\ clock' = ClockAfter(clock, d)
                /\ hist' = [hist EXCEPT !.pending = hist.latency + d]
            /\ pc' = "write"
            /\ UNCHANGED <<serial_fd, exitStatus>>
       ELSE /\ serial_fd' = "closed"
            /\ exitStatus' = 0
            /\ pc' = "exit"
            /\ UNCHANGED <<clock, now, t_ms, y, buffer, hist>>
    /\ UNCHANGED <<rt, configured, stderrLog, next, start, tick, wire, io,
                  am>>

(* a write that is issued again when it fails *)
WriteRetry ==
    /\ pc = "write"
    /\ wire' = buffer
    /\ \E r \in {"ok", "fail"} :
        /\ io' = [io EXCEPT !.writes = io.writes + 1, !.wr = r,
                            !.failed = io.failed \/ (r = "fail")]
        /\ pc' = IF r = "fail" THEN "write" ELSE "drain"
    /\ hist' = [hist EXCEPT !.prevEmit = hist.emit, !.emit = clock,
                            !.prevJitter = hist.jitter,
                            !.jitter = hist.pending, !.pending = 0]
    /\ UNCHANGED <<clock, rt, serial_fd, configured, stderrLog, exitStatus, next,
                   start, now, t_ms, y, buffer, tick, am>>

(* write(serial_fd, buffer, strlen(buffer)); the fd is non-blocking and the *)
(* result is dropped                                                        *)
Write ==
    /\ pc = "write"
    /\ wire' = buffer
    /\ \E r \in {"ok", "fail"} :
        io' = [io EXCEPT !.writes = io.writes + 1, !.wr = r,
                         !.failed = io.failed \/ (r = "fail")]
    /\ hist' = [hist EXCEPT !.prevEmit = hist.emit, !.emit = clock,
                            !.prevJitter = hist.jitter,
                            !.jitter = hist.pending, !.pending = 0]
    /\ pc' = "drain"
    /\ UNCHANGED <<clock, rt, serial_fd, configured, stderrLog, exitStatus,
                  next, start, now, t_ms, y, buffer, tick, am>>

(* tcdrain(serial_fd); blocks while the line transmits, result dropped *)
Drain ==
    /\ pc = "drain"
    /\ \E r \in {"ok", "fail"} :
        io' = [io EXCEPT !.drains = io.drains + 1,
                         !.failed = io.failed \/ (r = "fail")]
    /\ \E d \in IODelays :
        /\ clock' = ClockAfter(clock, d)
        /\ hist' = [hist EXCEPT !.jitter = hist.jitter + d]
    /\ pc' = "log"
    /\ UNCHANGED <<rt, serial_fd, configured, stderrLog, exitStatus, next,
                  start, now, t_ms, y, buffer, tick, wire, am>>

(* std::cout << "Sent: " << buffer; *)
LogSent ==
    /\ pc = "log"
    /\ io' = [io EXCEPT !.logs = io.logs + 1]
    /\ pc' = "sleep"
    /\ UNCHANGED <<clock, rt, serial_fd, configured, stderrLog, exitStatus,
                  next, start, now, t_ms, y, buffer, tick, wire, hist, am>>

(* sleep_until(next); the wake-up may come late *)
SleepUntil ==
    /\ pc = "sleep"
    /\ \E l \in WakeLatencies :
        /\ clock' = ClockAfter(sleep_until(clock, next), l)
        /\ hist' = [hist EXCEPT !.deadline = next, !.latency = l]
    /\ io' = [io EXCEPT !.sleeps = io.sleeps + 1]
    /\ pc' = "advance"
    /\ UNCHANGED <<rt, serial_fd, configured, stderrLog, exitStatus, next,
                  start, now, t_ms, y, buffer, tick, wire, am>>

(* the loop without its add_ms: the deadline stays where it was *)
AdvanceNoStep ==
    /\ pc = "advance"
    /\ next' = next
    /\ tick' = tick + 1
    /\ io' = [io EXCEPT !.wr = "none"]
    /\ pc' = "loop"
    /\ UNCHANGED <<clock, rt, serial_fd, configured, stderrLog, exitStatus, start,
                   now, t_ms, y, buffer, wire, hist, am>>

(* a relative period: the next deadline is one step after the wake-up *)
AdvanceRelative ==
    /\ pc = "advance"
    /\ next' = add_ms(clock, StepMs)
    /\ tick' = tick + 1
    /\ io' = [io EXCEPT !.wr = "none"]
    /\ pc' = "loop"
    /\ UNCHANGED <<clock, rt, serial_fd, configured, stderrLog, exitStatus, start,
                   now, t_ms, y, buffer, wire, hist, am>>

(* add_ms(next, 50); and back to the loop test *)
Advance ==
    /\ pc = "advance"
    /\ next' = add_ms(next, StepMs)
    /\ tick' = tick + 1
    /\ io' = [io EXCEPT !.wr = "none"]
    /\ pc' = "loop"
    /\ UNCHANGED <<clock, rt, serial_fd, configured, stderrLog, exitStatus,
                  start, now, t_ms, y, buffer, wire, hist, am>>

Next ==
    \/ EnableRealtime
    \/ OpenPort
    \/ ConfigureUart
    \/ ClockNext
    \/ ClockStart
    \/ Sample
    \/ Write
    \/ Drain
    \/ LogSent
    \/ SleepUntil
    \/ Advance

Spec == Init /\ [][Next]_vars

(* ------------------------ add_ms on its own ---------------------------- *)

AddTimes ==
    { Timespec(s, ns) : s \in {0, 7},
                        ns \in {0, 1, 123456789, 950 * NSEC_PER_MS,
                                NSEC_PER_SEC - 1} }

AddMillis == {0, 1, StepMs, MS_PER_SEC - 1, MS_PER_SEC, MaxMs}

InitAdd ==
    /\ pc = "add_ms"
    /\ clock = NoTime
    /\ Fresh
    /\ \E t \in AddTimes : am = [AmInit EXCEPT !.t = t, !.prev = t]

(* add_ms(t, ms) *)
ApplyAddMs ==
    /\ pc = "add_ms"
    /\ am.n < MaxApply
    /\ \E ms \in AddMillis :
        am' = [t |-> add_ms(am.t, ms), ms |-> ms, prev |-> am.t, n |-> am.n + 1]
    /\ UNCHANGED <<pc, clock, rt, serial_fd, configured, stderrLog,
                  exitStatus, next, start, now, t_ms, y, buffer, tick, wire,
                  io, hist>>

NextAdd == Next \/ ApplyAddMs

SpecAddMs == (Init \/ InitAdd) /\ [][NextAdd]_vars

(* ----------------------------- properties ------------------------------ *)

LoopPcs == {"loop", "write", "drain", "log", "sleep", "advance"}

AfterWrite == {"drain", "log", "sleep", "advance"}

Count(S) == IF pc \in S THEN 1 ELSE 0

(* a sample has been computed, and which iteration computed the latest *)
Sampled == pc \in ({"write"} \cup AfterWrite) \/ (pc = "loop" /\ tick > 0)

SampleIndex == IF pc = "loop" THEN tick - 1 ELSE tick

(* ts is exactly t0 + k steps *)
OnGrid(ts, k) ==
    /\ Normalised(ts)
    /\ DiffMs(ts, hist.t0) = k * StepMs
    /\ DiffRemNs(ts, hist.t0) = 0

(* each of write, tcdrain, the log line and the sleep: once per iteration *)
OneCallPerIteration ==
    /\ io.writes = tick + Count(AfterWrite)
    /\ io.drains = tick + Count({"log", "sleep", "advance"})
    /\ io.logs = tick + Count({"sleep", "advance"})
    /\ io.sleeps = tick + Count({"advance"})

IsDigit(c) == \E d \in 1..Len(Digits) : Digits[d] = c

DigitVal(c) == (CHOOSE d \in 1..Len(Digits) : Digits[d] = c) - 1

RECURSIVE ParseDigits(_)
ParseDigits(cs) ==
    IF cs = <<>> THEN 0
    ELSE 10 * ParseDigits(SubSeq(cs, 1, Len(cs) - 1)) + DigitVal(cs[Len(cs)])

(* digits, a point, FracDigits digits, CR, LF, and nothing else *)
WellFormedLine(w) ==
    LET n == Len(w)
    IN  /\ n >= FracDigits + 4
        /\ w[n] = "\n"
        /\ w[n - 1] = "\r"
        /\ \A i \in (n - 1 - FracDigits)..(n - 2) : IsDigit(w[i])
        /\ w[n - 2 - FracDigits] = "."
        /\ \A i \in 1..(n - 3 - FracDigits) : IsDigit(w[i])

(* the number a well-formed line states, times Scale *)
LineValue(w) ==
    LET n == Len(w)
    IN  ParseDigits(SubSeq(w, 1, n - 3 - FracDigits)) * Scale
        + ParseDigits(SubSeq(w, n - 1 - FracDigits, n - 2))

(* C1: when open returns -1 the program logs the failure and exits with    *)
(* status 1; no serial configuration, write, drain, log line or sleep ever *)
(* happens on that path.                                                   *)
C1_OpenFailureExits ==
    serial_fd = "failed" =>
        /\ pc = "exit"
        /\ exitStatus = 1
        /\ stderrLog # <<>>
        /\ stderrLog[Len(stderrLog)] = "Failed to open UART"
        /\ ~configured
        /\ io = IoInit
        /\ wire = <<>>
        /\ tick = 0

C1_Witness == serial_fd = "failed" /\ pc = "exit" /\ exitStatus = 1

(* C2 as claimed: the time argument of the n-th sample is n * 50 ms and    *)
(* the value is amplitude * sin(2 pi f n S) + offset, whatever the delays. *)
C2_ArgIsTickTimesStep ==
    Sampled =>
        /\ t_ms = SampleIndex * StepMs
        /\ y = SineY(SampleIndex * StepMs)

(* C2 amended: the n-th sample is amplitude * sin(2 pi f t) + offset for   *)
(* t = now - start, the elapsed monotonic time read in that iteration;     *)
(* t is never negative and never less than n * 50 ms minus the time        *)
(* between the two clock readings before the loop (start - T0).            *)
C2_ArgIsElapsedTime ==
    Sampled =>
        /\ t_ms = DiffMs(now, start)
        /\ y = Amplitude * SinScaled(DiffMs(now, start)) + Offset * Scale
        /\ t_ms >= 0
        /\ t_ms + DiffMs(start, hist.t0) >= SampleIndex * StepMs

C2_Witness ==
    /\ Sampled
    /\ SampleIndex >= 2
    /\ t_ms > (SampleIndex + 1) * StepMs

(* C3 as claimed: two consecutive writes are at least one step apart, less *)
(* the delays inside a single one of the two iterations, also after an     *)
(* overrun.                                                                *)
C3_GapAtLeastStepMinusJitter ==
    io.writes >= 2 =>
        LET j == IF hist.jitter > hist.prevJitter THEN hist.jitter
                 ELSE hist.prevJitter
        IN  DiffMs(hist.emit, hist.prevEmit) + j >= StepMs

(* C3 amended: write n+1 is never issued before the absolute deadline      *)
(* T0 + (n+1) * 50 ms, so it follows write n by at least one step less the *)
(* lateness of write n against its own deadline T0 + n * 50 ms.            *)
C3_GapAtLeastStepMinusLateness ==
    io.writes >= 2 =>
        LET n    == io.writes - 2
            late == DiffMs(hist.prevEmit, hist.t0) - n * StepMs
        IN  /\ late >= 0
            /\ DiffMs(hist.emit, hist.prevEmit) + late >= StepMs

C3_Witness ==
    /\ io.writes >= 2
    /\ DiffMs(hist.emit, hist.prevEmit) = 0
    /\ hist.jitter = 0
    /\ hist.prevJitter = 0

(* C4: the deadline given to the k-th sleep is exactly T0 + k * 50 ms, T0  *)
(* being the reading taken into next before the loop, whatever earlier     *)
(* iterations took and whenever earlier sleeps returned.                   *)
C4_DeadlinesOnGrid ==
    /\ io.sleeps >= 1 => OnGrid(hist.deadline, io.sleeps)
    /\ pc = "sleep" => OnGrid(next, io.sleeps + 1)

C4_Witness ==
    /\ io.sleeps >= 3
    /\ pc = "advance"
    /\ DiffMs(clock, hist.deadline) > 2 * StepMs

(* C5: every emitted value lies in [offset - amplitude, offset + amplitude] *)
(* = [0, 8], and the elapsed time it is computed from is never negative.   *)
C5_ValueInRange ==
    Sampled =>
        /\ y >= (Offset - Amplitude) * Scale
        /\ y <= (Offset + Amplitude) * Scale
        /\ t_ms >= 0
        /\ (io.writes > 0 /\ pc # "write" => LineValue(wire) <= (Offset + Amplitude) * Scale)

C5_Witness == io.writes > 0 /\ pc \in AfterWrite /\ y < Scale

(* C6: once the device is open the program never exits: the loop does not  *)
(* end, close and return 0 are never reached, and the only exit status the *)
(* program produces is 1, after a failed open.                             *)
C6_NoExitOnceOpen ==
    /\ serial_fd # "closed"
    /\ exitStatus \in {NoExit, 1}
    /\ (exitStatus = 1 \/ pc = "exit") => serial_fd = "failed"
    /\ serial_fd = "open" => pc \in ({"config", "clock_next", "clock_start"} \cup LoopPcs)

C6_Witness == serial_fd = "open" /\ pc = "loop" /\ tick >= 3 /\ io.failed

(* C7: a refused priority request is logged and changes nothing else: the  *)
(* program goes on to open the device, exits only if that open fails, and  *)
(* otherwise runs the loop.                                                *)
C7_PriorityFailureIgnored ==
    rt = "fail" =>
        /\ pc # "start"
        /\ stderrLog # <<>>
        /\ stderrLog[1] = "sched_setscheduler"
        /\ (pc = "exit" <=> serial_fd = "failed")
        /\ (exitStatus = 1 <=> serial_fd = "failed")
        /\ exitStatus \in {NoExit, 1}
        /\ (serial_fd = "none" <=> pc = "open")

C7_Witness == rt = "fail" /\ serial_fd = "open" /\ pc = "advance" /\ tick >= 1

(* C8: after a failed write or tcdrain the loop neither exits nor retries: *)
(* each iteration still makes exactly one write, one drain, one log line   *)
(* and one sleep, and the deadline stays T0 + (iteration + 1) * 50 ms, as  *)
(* in a run without failures.                                              *)
C8_IoFailuresIgnored ==
    io.failed =>
        /\ pc \in LoopPcs
        /\ exitStatus = NoExit
        /\ serial_fd = "open"
        /\ OneCallPerIteration
        /\ OnGrid(next, tick + 1)

C8_Witness ==
    /\ io.failed
    /\ io.wr = "fail"
    /\ tick >= 1
    /\ pc = "advance"

(* C9: each iteration issues exactly one write, whose payload is the       *)
(* sample as a decimal with exactly 4 fractional digits followed by CR LF  *)
(* and nothing else; it states the sample, and its 8 characters fit the    *)
(* 32-byte buffer untruncated.                                             *)
C9_OneFormattedLinePerTick ==
    /\ pc \in LoopPcs => io.writes = tick + Count(AfterWrite)
    /\ io.writes > 0 =>
        /\ WellFormedLine(wire)
        /\ Len(wire) = FracDigits + 4
        /\ Len(wire) < BufSize
        /\ (pc # "write" => LineValue(wire) = y)

C9_Witness == io.writes >= 2 /\ pc = "drain" /\ wire[1] # "4"

====
